---- MODULE Spec2Model ----
(***************************************************************************)
(* The credential lifecycle of outlook-events-portal: package              *)
(* authentication (src/authentication/auth.go, lines 1-326) and the        *)
(* polling loop of src/main.go (lines 1-261) that reads the access token.  *)
(*                                                                         *)
(* Processes: the main goroutine inside authentication.Run, the HTTP       *)
(* handlers running callbackHandler, the goroutines running                *)
(* refreshTokenManager, and the goroutine running                          *)
(* outlookEventRefreshManager.  Time is in seconds; computation is         *)
(* instantaneous and the clock only moves when every goroutine is asleep   *)
(* or finished.                                                            *)
(***************************************************************************)
EXTENDS Integers, Sequences, FiniteSets, TLC

\* ------------------------------------------------------------- bounds
MaxExchanges == 4        \* provider token requests made in one behaviour
MaxManagers == 2         \* goroutines that can run refreshTokenManager at once
MaxHandlers == 1         \* /callback requests served in one behaviour
MaxNow == 120            \* the clock stops here
MaxEvents == 2           \* events in a fetched list

\* ------------------------------------------------- program constants
SafetyMargin == 60       \* credentials.credentials.ExpiresIn-60
Uint16Modulus == 65536   \* ExpiresIn uint16
FetchEventsTicker == 60  \* fetchEventsTicker := 60 * time.Second
StatusOK == 200          \* resp.StatusCode != 200

\* ------------------------------------------------------------- values
NoOne == <<"none", 0>>
RunProc == <<"run", 0>>
PollProc == <<"poll", 0>>
Managers == {<<"mgr", i>> : i \in 1..MaxManagers}
Handlers == {<<"cb", i>> : i \in 1..MaxHandlers}
Refreshers == {RunProc} \cup Managers
Exchangers == Refreshers \cup Handlers
Procs == Exchangers \cup {PollProc}
Starters == {RunProc} \cup Handlers

\* GraphAuthentication{}: the zero value of the struct
ZeroCredentials ==
    [Token |-> "", Scope |-> "", ExpiresIn |-> 0, AccessToken |-> "", RefreshToken |-> ""]

\* The token bodies the provider can answer with: a long-lived token and a
\* token whose lifetime is below the 60 second margin, each with its own
\* (rotated) refresh token.
TokenBodies ==
    { [Token |-> "Bearer", Scope |-> "Calendars.Read", ExpiresIn |-> 120,
       AccessToken |-> "at1", RefreshToken |-> "rt1"],
      [Token |-> "Bearer", Scope |-> "Calendars.Read", ExpiresIn |-> 30,
       AccessToken |-> "at2", RefreshToken |-> "rt2"] }

\* What http.PostForm can produce: a transport error (status 0, no body), a
\* 200 with a token body, a 200 with a body that is no JSON, and a 400 with
\* the provider's JSON error object (none of the five fields present).
NoResponse == [status |-> -1, body |-> "none", auth |-> ZeroCredentials]
TransportError == [status |-> 0, body |-> "none", auth |-> ZeroCredentials]
Responses ==
    {TransportError}
    \cup {[status |-> StatusOK, body |-> "json", auth |-> a] : a \in TokenBodies}
    \cup {[status |-> StatusOK, body |-> "garbage", auth |-> ZeroCredentials]}
    \cup {[status |-> 400, body |-> "json", auth |-> ZeroCredentials]}

\* credentialsConfig: Persist, StoragePath, Browser
Configs ==
    { [Persist |-> TRUE, StoragePath |-> "/cache", Browser |-> TRUE],
      [Persist |-> TRUE, StoragePath |-> "", Browser |-> FALSE],
      [Persist |-> FALSE, StoragePath |-> "/cache", Browser |-> FALSE] }

\* An encoder that names the keys after the struct's json tags: what C19
\* rests on.
TomlEncodeBroken(c) ==
    [kind |-> "toml",
     pairs |-> { <<"token_type", c.Token>>, <<"scope", c.Scope>>,
                 <<"expires_in", c.ExpiresIn>>, <<"access_token", c.AccessToken>>,
                 <<"refresh_token", c.RefreshToken>> }]

\* toml.NewEncoder(buf).Encode(credentials.credentials): a document of one
\* key = value line for each field; the struct has no toml tags, so the keys
\* are the Go field names.
TomlEncode(c) ==
    [kind |-> "toml",
     pairs |-> { <<"Token", c.Token>>, <<"Scope", c.Scope>>, <<"ExpiresIn", c.ExpiresIn>>,
                 <<"AccessToken", c.AccessToken>>, <<"RefreshToken", c.RefreshToken>> }]

\* The credentials file as the process can find it at startup.
AbsentFile == [kind |-> "absent"]
MalformedFile == [kind |-> "malformed"]
EmptyFile == [kind |-> "empty"]
StartFiles ==
    { AbsentFile, MalformedFile,
      TomlEncode(ZeroCredentials),
      TomlEncode([Token |-> "Bearer", Scope |-> "Calendars.Read", ExpiresIn |-> 120,
                  AccessToken |-> "at0", RefreshToken |-> "rt0"]) }

\* The value a document gives to a key, or the field's zero value.
TomlValue(doc, key, zero) ==
    IF \E kv \in doc.pairs : kv[1] = key
    THEN (CHOOSE kv \in doc.pairs : kv[1] = key)[2]
    ELSE zero

\* toml.Decode(string(credentialsContent), &credentials): the document's keys
\* are matched to the struct's fields by name; a field without a key keeps
\* its zero value, and an empty document sets none of them.
TomlDecode(doc) ==
    IF doc.kind = "toml"
    THEN [Token |-> TomlValue(doc, "Token", ""), Scope |-> TomlValue(doc, "Scope", ""),
          ExpiresIn |-> TomlValue(doc, "ExpiresIn", 0),
          AccessToken |-> TomlValue(doc, "AccessToken", ""),
          RefreshToken |-> TomlValue(doc, "RefreshToken", "")]
    ELSE ZeroCredentials

\* What the endpoint or the status file says: nothing (kind ""), "No events",
\* or an event by its subject and the instant it starts.
NoReport == [kind |-> "", Subject |-> "", Start |-> 0]
NoEvents == [kind |-> "No events", Subject |-> "", Start |-> 0]

VARIABLES
    credentials,                 \* graphCredentialStorage.credentials
    expiresTimestamp,            \* graphCredentialStorage.expiresTimestamp
    authenticated,               \* graphCredentialStorage.authenticated
    lock,                        \* graphCredentialStorage.lock: its holder
    refreshTokenManagerRunning,  \* the package variable of that name
    loggerSet,                   \* whether the package variable logger is non-nil
    credentialsConfig,           \* the package variable of that name
    graphCredentials,            \* main.go: what Run returned ("unset", "nil", "store")
    file,                        \* StoragePath/credentials.toml
    pc,                          \* where each goroutine stands
    data,                        \* refreshTokenHandler: data["refresh_token"]
    resp,                        \* the provider's answer to each goroutine's request
    err,                         \* what refreshTokenHandler returned ("unset", "nil", "err")
    timeUntilRefresh,            \* refreshTokenManager: timeUntilRefresh
    wakeAt,                      \* when a sleeping goroutine's time.Sleep ends
    buf,                         \* persistCredentials: buf
    redirect,                    \* callbackHandler: the target given to http.Redirect
    started,                     \* Run, callbackHandler: whether go refreshTokenManager() ran
    wrote,                       \* history: whether the handler wrote the store
    isAuthenticated,             \* fetchEventsFromOutlook: isAuthenticated
    graphAccessToken,            \* fetchEventsFromOutlook: graphAccessToken
    openLoginPageCalls,          \* history: the call sites that called openLoginPage
    browserOpened,               \* whether exec.Command("open", ...) was started
    now,                         \* time.Now()
    nExchanges,                  \* provider requests made so far
    exchange,                    \* the number of each goroutine's latest request
    tokenBy,                     \* history: the request whose handling last wrote AccessToken
    authBy,                      \* history: the request whose handling last wrote authenticated
    seenTokenBy,                 \* history: tokenBy when GetAccessToken read AccessToken
    seenAuthBy,                  \* history: authBy when GetAccessToken read authenticated
    granted,                     \* history: the refresh token of the latest successful exchange
    crashed,                     \* "no", or the function in which the process ended
    graphEvents,                 \* main.go: graphEvents.Value
    fetching,                    \* fetchEventsFromOutlook: between Decode and sort.Slice
    nextEventFile,               \* the content of /tmp/next_event
    nextEventBody                \* what nextEventHandler wrote to the latest response

store == <<credentials, expiresTimestamp, authenticated>>
history == <<tokenBy, authBy, granted>>
seen == <<seenTokenBy, seenAuthBy>>
config == <<loggerSet, credentialsConfig>>
login == <<openLoginPageCalls, browserOpened>>
exchanges == <<nExchanges, exchange, resp>>
manager == <<timeUntilRefresh, buf>>
callback == <<redirect, started, wrote>>
poller == <<isAuthenticated, graphAccessToken>>
display == <<graphEvents, fetching, nextEventFile, nextEventBody>>
vars ==
    <<credentials, expiresTimestamp, authenticated, lock, refreshTokenManagerRunning,
      loggerSet, credentialsConfig, graphCredentials, file, pc, data, resp, err,
      timeUntilRefresh, wakeAt, buf, redirect, started, wrote, isAuthenticated,
      graphAccessToken, openLoginPageCalls, browserOpened, now, nExchanges, exchange,
      tokenBy, authBy, seenTokenBy, seenAuthBy, granted, crashed,
      graphEvents, fetching, nextEventFile, nextEventBody>>

\* ---------------------------------------------------------------- Init
\* The state when main calls authentication.Run: the package variables hold
\* their zero values, no goroutine has been started, no request is served.
\* Without persistence the file is never read or written: one content stands
\* for all.
Init ==
    /\ credentials = ZeroCredentials
    /\ expiresTimestamp = 0
    /\ authenticated = FALSE
    /\ lock = NoOne
    /\ refreshTokenManagerRunning = FALSE
    /\ loggerSet = FALSE
    /\ credentialsConfig \in Configs
    /\ graphCredentials = "unset"
    /\ file \in StartFiles
    /\ credentialsConfig.Persist \/ file = AbsentFile
    /\ pc = [p \in Procs |-> IF p = RunProc THEN "load" ELSE "idle"]
    /\ data = [p \in Refreshers |-> ""]
    /\ resp = [p \in Exchangers |-> NoResponse]
    /\ err = [p \in Refreshers |-> "unset"]
    /\ timeUntilRefresh = [m \in Managers |-> 0]
    /\ wakeAt = [p \in Managers \cup {PollProc} |-> 0]
    /\ buf = [m \in Managers |-> AbsentFile]
    /\ redirect = [h \in Handlers |-> ""]
    /\ started = [p \in Starters |-> FALSE]
    /\ wrote = [h \in Handlers |-> FALSE]
    /\ isAuthenticated = FALSE
    /\ graphAccessToken = ""
    /\ openLoginPageCalls = {}
    /\ browserOpened = FALSE
    /\ now = 0
    /\ nExchanges = 0
    /\ exchange = [p \in Exchangers |-> 0]
    /\ tokenBy = 0
    /\ authBy = 0
    /\ seenTokenBy = 0
    /\ seenAuthBy = 0
    /\ granted = ""
    /\ crashed = "no"
    /\ graphEvents = <<>>
    /\ fetching = FALSE
    /\ nextEventFile = NoReport
    /\ nextEventBody = NoReport

\* ------------------------------------------------------------- helpers
\* The process runs until a panic or logger.Fatal (logrus: os.Exit) ends it.
Alive == crashed = "no"

\* The process ends inside function `where`: its memory and its goroutines are
\* gone; the file, the configuration and the clock remain.
Exit(where) ==
    /\ crashed' = where
    /\ credentials' = ZeroCredentials
    /\ expiresTimestamp' = 0
    /\ authenticated' = FALSE
    /\ lock' = NoOne
    /\ refreshTokenManagerRunning' = FALSE
    /\ loggerSet' = FALSE
    /\ graphCredentials' = "unset"
    /\ pc' = [p \in Procs |-> "exit"]
    /\ data' = [p \in Refreshers |-> ""]
    /\ resp' = [p \in Exchangers |-> NoResponse]
    /\ err' = [p \in Refreshers |-> "unset"]
    /\ timeUntilRefresh' = [m \in Managers |-> 0]
    /\ wakeAt' = [p \in Managers \cup {PollProc} |-> 0]
    /\ buf' = [m \in Managers |-> AbsentFile]
    /\ redirect' = [h \in Handlers |-> ""]
    /\ started' = [p \in Starters |-> FALSE]
    /\ wrote' = [h \in Handlers |-> FALSE]
    /\ isAuthenticated' = FALSE
    /\ graphAccessToken' = ""
    /\ exchange' = [p \in Exchangers |-> 0]
    /\ tokenBy' = 0
    /\ authBy' = 0
    /\ seenTokenBy' = 0
    /\ seenAuthBy' = 0
    /\ granted' = ""
    /\ UNCHANGED <<credentialsConfig, openLoginPageCalls, browserOpened, now, nExchanges,
                   display>>

\* A mutex that excludes nobody: what C7 rests on.
CanLockBroken(p) == TRUE

\* sync.Mutex.Lock returns only when no goroutine holds the mutex.
CanLock(p) == lock = NoOne

\* go graphCredentialStorage.refreshTokenManager(): the new goroutine takes
\* the first slot that no running goroutine occupies.
FreeManagers == {m \in Managers : pc[m] = "idle"}
NewManager == CHOOSE m \in FreeManagers : \A o \in FreeManagers : m[2] <= o[2]

\* openLoginPage, called from `site` by a goroutine of kind p[1]: the browser
\* is launched only when credentialsConfig.Browser.
OpenLoginPage(site, p) ==
    /\ openLoginPageCalls' = openLoginPageCalls \cup {<<site, p[1]>>}
    /\ browserOpened' = (browserOpened \/ credentialsConfig.Browser)

\* json.NewDecoder(resp.Body).Decode(&graphAuth) fails on a body that is no JSON.
DecodeFails(r) == r.body # "json"

\* An answer that carries a token: status 200 and a body that decodes.
Succeeded(r) == r.status = StatusOK /\ ~DecodeFails(r)

\* ------------------------------------------------------------------ Run
\* Run, lines 95-104: loadExistingCredentials, then logger = log and the
\* handlers' registration.  loadExistingCredentials logs a read or decode
\* error through the package variable logger, which Run sets only afterwards:
\* the call on the nil interface panics.
LoadFails == file.kind \in {"absent", "malformed"}

RunLoad ==
    /\ Alive
    /\ pc[RunProc] = "load"
    /\ IF credentialsConfig.Persist /\ LoadFails /\ ~loggerSet
       THEN /\ Exit("loadExistingCredentials")
            /\ UNCHANGED file
       ELSE /\ credentials' =
                  IF credentialsConfig.Persist THEN TomlDecode(file) ELSE ZeroCredentials
            /\ loggerSet' = TRUE
            /\ pc' = [pc EXCEPT ![RunProc] = "check"]
            /\ UNCHANGED <<expiresTimestamp, authenticated, lock,
                           refreshTokenManagerRunning, credentialsConfig, graphCredentials,
                           file, data, err, exchanges, manager, wakeAt, callback, poller,
                           login, now, history, seen, crashed, display>>

\* main.go lines 129-131: main keeps what Run returned, starts
\* outlookEventRefreshManager (which first sleeps for fetchEventsTicker) and
\* serves HTTP.
MainServe(returned) ==
    /\ graphCredentials' = returned
    /\ wakeAt' = [wakeAt EXCEPT ![PollProc] = now + FetchEventsTicker]

\* Run, lines 106-117 with an empty refresh token: openLoginPage, return
\* &graphCredentialStorage.  With a refresh token: refreshTokenHandler is called.
RunCheck ==
    /\ Alive
    /\ pc[RunProc] = "check"
    /\ IF credentials.RefreshToken # ""
       THEN /\ pc' = [pc EXCEPT ![RunProc] = "rfLock"]
            /\ UNCHANGED <<graphCredentials, wakeAt, openLoginPageCalls, browserOpened>>
       ELSE /\ OpenLoginPage("Run", RunProc)
            /\ MainServe("store")
            /\ pc' = [pc EXCEPT ![RunProc] = "done", ![PollProc] = "sleep"]
    /\ UNCHANGED <<store, lock, refreshTokenManagerRunning, config, file, data, err,
                   exchanges, manager, callback, poller, now, history, seen, crashed, display>>

\* Run, lines 108-117 after refreshTokenHandler returned: on a nil error the
\* manager goroutine is started and Run returns nil; otherwise openLoginPage
\* and return &graphCredentialStorage.
RunAfterRefresh ==
    /\ Alive
    /\ pc[RunProc] = "rfRet"
    /\ IF err[RunProc] = "nil"
       THEN /\ FreeManagers # {}
            /\ started' = [started EXCEPT ![RunProc] = TRUE]
            /\ MainServe("nil")
            /\ pc' = [pc EXCEPT ![RunProc] = "done", ![PollProc] = "sleep",
                                ![NewManager] = "start"]
            /\ UNCHANGED <<openLoginPageCalls, browserOpened>>
       ELSE /\ OpenLoginPage("Run", RunProc)
            /\ MainServe("store")
            /\ pc' = [pc EXCEPT ![RunProc] = "done", ![PollProc] = "sleep"]
            /\ UNCHANGED started
    /\ UNCHANGED <<store, lock, refreshTokenManagerRunning, config, file, data, err,
                   exchanges, manager, redirect, wrote, poller, now, history, seen, crashed, display>>

\* ------------------------------------------------- refreshTokenHandler
\* refreshTokenHandler is called by Run (line 108) and by a manager whose
\* sleep has ended (lines 148-153).
CallsRefresh(p) ==
    \/ pc[p] = "rfLock"
    \/ p \in Managers /\ pc[p] = "sleep" /\ now >= wakeAt[p]

\* Lines 226-237: the lock is taken (and held until the function returns);
\* the request carries the stored refresh token.
RefreshLock(p) ==
    /\ Alive
    /\ CallsRefresh(p)
    /\ CanLock(p)
    /\ lock' = p
    /\ data' = [data EXCEPT ![p] = credentials.RefreshToken]
    /\ pc' = [pc EXCEPT ![p] = "rfPost"]
    /\ UNCHANGED <<store, refreshTokenManagerRunning, config, graphCredentials, file, err,
                   exchanges, manager, wakeAt, callback, poller, login, now, history,
                   seen, crashed, display>>

\* What refreshTokenHandler does with an answer: "return" (line 242), "clear"
\* (lines 247-250 and 259-262) or "write" (lines 266-273).
RefreshBranch(r) ==
    IF r.status = 0 THEN "return"
    ELSE IF r.status # StatusOK THEN "clear"
    ELSE IF DecodeFails(r) THEN "clear"
    ELSE "write"

\* A handler that reports an error whatever happened: what C11 rests on.
RefreshErrorBroken(r) == "err"

\* The error refreshTokenHandler returns: non-nil only at line 262.
RefreshError(r) ==
    IF r.status = StatusOK /\ DecodeFails(r) THEN "err" ELSE "nil"

\* A store write that leaves the access token as it was: what C8 rests on.
WriteFirstBroken(c, g) ==
    [c EXCEPT !.Token = g.Token, !.AccessToken = c.AccessToken, !.ExpiresIn = g.ExpiresIn]

\* The first assignments of a store write (lines 266-269 and 312-315).
WriteFirst(c, g) ==
    [c EXCEPT !.Token = g.Token, !.AccessToken = g.AccessToken, !.ExpiresIn = g.ExpiresIn]

\* The last assignments of a store write (lines 270-271 and 316-317).
WriteLast(c, g) ==
    [c EXCEPT !.RefreshToken = g.RefreshToken, !.Scope = g.Scope]

\* time.Now().Add(time.Second * time.Duration(graphAuth.ExpiresIn))
ExpiryOf(g) == now + g.ExpiresIn

\* Lines 239-269: http.PostForm, with whatever the provider answers; the
\* answer is examined and the credentials are left alone, cleared, or
\* overwritten with the decoded token's.
RefreshPost(p) ==
    /\ Alive
    /\ pc[p] = "rfPost"
    /\ nExchanges < MaxExchanges
    /\ nExchanges' = nExchanges + 1
    /\ exchange' = [exchange EXCEPT ![p] = nExchanges + 1]
    /\ \E r \in Responses :
          /\ resp' = [resp EXCEPT ![p] = r]
          /\ IF RefreshBranch(r) = "return"
             THEN /\ lock' = NoOne
                  /\ err' = [err EXCEPT ![p] = RefreshError(r)]
                  /\ pc' = [pc EXCEPT ![p] = "rfRet"]
                  /\ UNCHANGED <<store, history>>
             ELSE IF RefreshBranch(r) = "clear"
             THEN /\ credentials' = ZeroCredentials
                  /\ tokenBy' = nExchanges + 1
                  /\ pc' = [pc EXCEPT ![p] = "rfClear"]
                  /\ UNCHANGED <<expiresTimestamp, authenticated, authBy, granted, lock, err>>
             ELSE /\ credentials' = WriteFirst(credentials, r.auth)
                  /\ expiresTimestamp' = ExpiryOf(r.auth)
                  /\ tokenBy' = nExchanges + 1
                  /\ pc' = [pc EXCEPT ![p] = "rfWrite"]
                  /\ UNCHANGED <<authenticated, authBy, granted, lock, err>>
    /\ UNCHANGED <<refreshTokenManagerRunning, config, graphCredentials, file, data,
                   manager, wakeAt, callback, poller, login, now, seen, crashed, display>>

\* Lines 248-250 and 260-262: authenticated = false, openLoginPage, return.
RefreshClear(p) ==
    /\ Alive
    /\ pc[p] = "rfClear"
    /\ authenticated' = FALSE
    /\ authBy' = exchange[p]
    /\ OpenLoginPage("refreshTokenHandler", p)
    /\ lock' = NoOne
    /\ err' = [err EXCEPT ![p] = RefreshError(resp[p])]
    /\ pc' = [pc EXCEPT ![p] = "rfRet"]
    /\ UNCHANGED <<credentials, expiresTimestamp, tokenBy, granted,
                   refreshTokenManagerRunning, config, graphCredentials, file, data, exchanges, manager, wakeAt,
                   callback, poller, now, seen, crashed, display>>

\* Lines 270-273: the rest of the write, authenticated = true, return nil.
RefreshWrite(p) ==
    /\ Alive
    /\ pc[p] = "rfWrite"
    /\ credentials' = WriteLast(credentials, resp[p].auth)
    /\ authenticated' = TRUE
    /\ authBy' = exchange[p]
    /\ granted' = resp[p].auth.RefreshToken
    /\ lock' = NoOne
    /\ err' = [err EXCEPT ![p] = RefreshError(resp[p])]
    /\ pc' = [pc EXCEPT ![p] = "rfRet"]
    /\ UNCHANGED <<expiresTimestamp, tokenBy, refreshTokenManagerRunning, config,
                   graphCredentials, file, data, exchanges, manager, wakeAt, callback,
                   poller, login, now, seen, crashed, display>>

\* ------------------------------------------------- refreshTokenManager
\* Lines 130-133: the goroutine reads refreshTokenManagerRunning (no lock is
\* held) and returns when it is set.
ManagerCheck(m) ==
    /\ Alive
    /\ pc[m] = "start"
    /\ pc' = [pc EXCEPT ![m] = IF refreshTokenManagerRunning THEN "idle" ELSE "set"]
    /\ UNCHANGED <<store, lock, refreshTokenManagerRunning, config, graphCredentials, file,
                   data, err, exchanges, manager, wakeAt, callback, poller, login, now,
                   history, seen, crashed, display>>

\* Line 134: refreshTokenManagerRunning = true, and the loop is entered.
ManagerSet(m) ==
    /\ Alive
    /\ pc[m] = "set"
    /\ refreshTokenManagerRunning' = TRUE
    /\ pc' = [pc EXCEPT ![m] = "persist"]
    /\ UNCHANGED <<store, lock, config, graphCredentials, file, data, err, exchanges,
                   manager, wakeAt, callback, poller, login, now, history, seen, crashed, display>>

\* A persist step that does not look at the path: what C22 rests on.
PersistsBroken == credentialsConfig.Persist

\* Lines 138-140 and 161-170: when persistence is on and the path is not
\* empty, the credentials are encoded under the lock.
Persists == credentialsConfig.Persist /\ credentialsConfig.StoragePath # ""

ManagerPersist(m) ==
    /\ Alive
    /\ pc[m] = "persist"
    /\ Persists
    /\ CanLock(m)
    /\ buf' = [buf EXCEPT ![m] = TomlEncode(credentials)]
    /\ pc' = [pc EXCEPT ![m] = "create"]
    /\ UNCHANGED <<store, lock, refreshTokenManagerRunning, config, graphCredentials, file,
                   data, err, exchanges, timeUntilRefresh, wakeAt, callback, poller, login,
                   now, history, seen, crashed, display>>

\* os.Create, f.WriteString and f.Close can each fail.
IOResults == {"ok", "createErr", "writeErr", "closeErr"}

\* The file after lines 178-192: untouched when os.Create fails, truncated
\* when the write fails, otherwise holding the encoded credentials.
FileAfter(io, old, new) ==
    IF io = "createErr" THEN old ELSE IF io = "writeErr" THEN EmptyFile ELSE new

\* Lines 178-192: the file is created, written and closed; every failure is
\* reported with logger.Fatal, which ends the process.
ManagerWriteFile(m) ==
    /\ Alive
    /\ pc[m] = "create"
    /\ \E io \in IOResults :
          /\ file' = FileAfter(io, file, buf[m])
          /\ IF io # "ok"
             THEN Exit("persistCredentials")
             ELSE /\ buf' = [buf EXCEPT ![m] = AbsentFile]
                  /\ pc' = [pc EXCEPT ![m] = "calc"]
                  /\ UNCHANGED <<store, lock, refreshTokenManagerRunning, config,
                                 graphCredentials, data, err, exchanges, timeUntilRefresh,
                                 wakeAt, callback, poller, login, now, history, seen,
                                 crashed, display>>

\* time.Duration(credentials.credentials.ExpiresIn-60) * time.Second, in
\* seconds: ExpiresIn is a uint16, and so is the difference.
TimeUntilRefresh(expiresIn) == (expiresIn - SafetyMargin) % Uint16Modulus

\* Lines 143-148: the sleep's length is computed under the lock, and the
\* goroutine sleeps.  Without persistence this is the loop's first statement.
ManagerCalc(m) ==
    /\ Alive
    /\ pc[m] = "calc" \/ (pc[m] = "persist" /\ ~Persists)
    /\ CanLock(m)
    /\ timeUntilRefresh' = [timeUntilRefresh EXCEPT ![m] = TimeUntilRefresh(credentials.ExpiresIn)]
    /\ wakeAt' = [wakeAt EXCEPT ![m] = now + TimeUntilRefresh(credentials.ExpiresIn)]
    /\ pc' = [pc EXCEPT ![m] = "sleep"]
    /\ UNCHANGED <<store, lock, refreshTokenManagerRunning, config, graphCredentials, file,
                   data, err, exchanges, buf, callback, poller, login, now, history, seen,
                   crashed, display>>

\* Lines 153-158: on a non-nil error the flag is reset and the goroutine
\* returns; otherwise the loop goes round.
ManagerStops(e) == e # "nil"

ManagerAfterRefresh(m) ==
    /\ Alive
    /\ pc[m] = "rfRet"
    /\ IF ManagerStops(err[m])
       THEN /\ refreshTokenManagerRunning' = FALSE
            /\ pc' = [pc EXCEPT ![m] = "idle"]
       ELSE /\ pc' = [pc EXCEPT ![m] = "persist"]
            /\ UNCHANGED refreshTokenManagerRunning
    /\ data' = [data EXCEPT ![m] = ""]
    /\ resp' = [resp EXCEPT ![m] = NoResponse]
    /\ err' = [err EXCEPT ![m] = "unset"]
    /\ exchange' = [exchange EXCEPT ![m] = 0]
    /\ timeUntilRefresh' = [timeUntilRefresh EXCEPT ![m] = 0]
    /\ wakeAt' = [wakeAt EXCEPT ![m] = 0]
    /\ UNCHANGED <<store, lock, config, graphCredentials, file, nExchanges, buf, callback,
                   poller, login, now, history, seen, crashed, display>>

\* A callback answer the handler accepts whatever the body: what C28 rests on.
CallbackAcceptsAnyBody(r) == r.status # 0

\* ----------------------------------------------------- callbackHandler
\* Whether callbackHandler goes on to write the store: the request went
\* through and the body decoded (lines 292 and 302; the status is not read).
CallbackAccepts(r) == r.status # 0 /\ ~DecodeFails(r)

\* The redirect targets exchanged: what C10 rests on.
CallbackRedirectTargetBroken(accepted) == IF accepted THEN "/error" ELSE "/success"

\* The target given to http.Redirect (lines 294, 304 and 322).
CallbackRedirectTarget(accepted) == IF accepted THEN "/success" ELSE "/error"

\* Lines 279-306: the code is posted to the provider, which answers anything;
\* a transport error or a body that does not decode ends the handler with
\* /error.  Requests are numbered in the order they arrive, and the server
\* serves once Run returned.
CallbackPost(h) ==
    /\ Alive
    /\ pc[h] = "idle"
    /\ pc[RunProc] = "done"
    /\ \A o \in Handlers : o[2] < h[2] => pc[o] # "idle"
    /\ nExchanges < MaxExchanges
    /\ nExchanges' = nExchanges + 1
    /\ \E r \in Responses :
          IF CallbackAccepts(r)
          THEN /\ resp' = [resp EXCEPT ![h] = r]
               /\ exchange' = [exchange EXCEPT ![h] = nExchanges + 1]
               /\ pc' = [pc EXCEPT ![h] = "cbHandle"]
               /\ UNCHANGED redirect
          ELSE /\ redirect' = [redirect EXCEPT ![h] = CallbackRedirectTarget(FALSE)]
               /\ pc' = [pc EXCEPT ![h] = "done"]
               /\ UNCHANGED <<resp, exchange>>
    /\ UNCHANGED <<store, lock, refreshTokenManagerRunning, config, graphCredentials, file,
                   data, err, manager, wakeAt, started, wrote, poller, login, now, history,
                   seen, crashed, display>>

\* Lines 308-315: otherwise the lock is taken and the first fields are written.
CallbackLock(h) ==
    /\ Alive
    /\ pc[h] = "cbHandle"
    /\ CanLock(h)
    /\ lock' = h
    /\ credentials' = WriteFirst(credentials, resp[h].auth)
    /\ expiresTimestamp' = ExpiryOf(resp[h].auth)
    /\ tokenBy' = exchange[h]
    /\ pc' = [pc EXCEPT ![h] = "cbWrite"]
    /\ UNCHANGED <<authenticated, authBy, granted, refreshTokenManagerRunning, config,
                   graphCredentials, file, data, err, exchanges, manager, wakeAt, callback,
                   poller, login, now, seen, crashed, display>>

\* Lines 316-326: the rest of the write, authenticated = true, unlock; then
\* the redirect to /success, go refreshTokenManager(), and the handler returns.
CallbackWrite(h) ==
    /\ Alive
    /\ pc[h] = "cbWrite"
    /\ FreeManagers # {}
    /\ credentials' = WriteLast(credentials, resp[h].auth)
    /\ authenticated' = TRUE
    /\ authBy' = exchange[h]
    /\ granted' = IF Succeeded(resp[h]) THEN resp[h].auth.RefreshToken ELSE granted
    /\ lock' = NoOne
    /\ wrote' = [wrote EXCEPT ![h] = TRUE]
    /\ redirect' = [redirect EXCEPT ![h] = CallbackRedirectTarget(TRUE)]
    /\ started' = [started EXCEPT ![h] = TRUE]
    /\ pc' = [pc EXCEPT ![h] = "done", ![NewManager] = "start"]
    /\ UNCHANGED <<expiresTimestamp, tokenBy, refreshTokenManagerRunning, config,
                   graphCredentials, file, data, err, exchanges, manager, wakeAt, poller,
                   login, now, seen, crashed, display>>

\* ------------------------------------ outlookEventRefreshManager (main.go)
\* main.go lines 154-164 and GetAccessToken, lines 121-122: the sleep ends,
\* fetchEventsFromOutlook calls graphCredentials.GetAccessToken(): Lock, then
\* authenticated is read.  On the nil pointer that Run returns after a silent
\* refresh, Lock panics.
GetAccessTokenLock ==
    /\ Alive
    /\ pc[PollProc] = "sleep"
    /\ now >= wakeAt[PollProc]
    /\ IF graphCredentials = "nil"
       THEN /\ Exit("GetAccessToken")
            /\ UNCHANGED file
       ELSE /\ CanLock(PollProc)
            /\ lock' = PollProc
            /\ isAuthenticated' = authenticated
            /\ seenAuthBy' = authBy
            /\ pc' = [pc EXCEPT ![PollProc] = "read"]
            /\ UNCHANGED <<store, refreshTokenManagerRunning, config, graphCredentials,
                           file, data, err, exchanges, manager, wakeAt, callback,
                           graphAccessToken, login, now, history, seenTokenBy, crashed, display>>

\* GetAccessToken, lines 123-126: AccessToken is read, Unlock, return.
GetAccessTokenRead ==
    /\ Alive
    /\ pc[PollProc] = "read"
    /\ graphAccessToken' = credentials.AccessToken
    /\ seenTokenBy' = tokenBy
    /\ lock' = NoOne
    /\ pc' = [pc EXCEPT ![PollProc] = "got"]
    /\ UNCHANGED <<store, refreshTokenManagerRunning, config, graphCredentials, file, data,
                   err, exchanges, manager, wakeAt, callback, isAuthenticated, login, now,
                   history, seenAuthBy, crashed, display>>

\* main.go lines 166-218 and 152-154: the events are fetched with the token
\* (or not, when unauthenticated), fetchEventsFromOutlook returns and the loop
\* sleeps again.  What is fetched and displayed is the subject of EventsSpec.
PollSleep ==
    /\ Alive
    /\ pc[PollProc] = "got"
    /\ isAuthenticated' = FALSE
    /\ graphAccessToken' = ""
    /\ seenTokenBy' = 0
    /\ seenAuthBy' = 0
    /\ wakeAt' = [wakeAt EXCEPT ![PollProc] = now + FetchEventsTicker]
    /\ pc' = [pc EXCEPT ![PollProc] = "sleep"]
    /\ UNCHANGED <<store, lock, refreshTokenManagerRunning, config, graphCredentials, file,
                   data, err, exchanges, manager, callback, login, now, history, crashed, display>>

\* ----------------------------------------------------------------- time
\* The goroutines inside time.Sleep, and the earliest end of a sleep.
Sleepers == {p \in Managers \cup {PollProc} : pc[p] = "sleep"}
Quiescent == \A p \in Procs : pc[p] \in {"idle", "sleep", "done"}

\* Time passes while every goroutine is asleep or finished, up to the
\* earliest end of a sleep.
Tick ==
    /\ Alive
    /\ Quiescent
    /\ \E p \in Sleepers :
          /\ \A o \in Sleepers : wakeAt[p] <= wakeAt[o]
          /\ wakeAt[p] > now
          /\ wakeAt[p] <= MaxNow
          /\ now' = wakeAt[p]
    /\ UNCHANGED <<store, lock, refreshTokenManagerRunning, config, graphCredentials, file,
                   pc, data, err, exchanges, manager, wakeAt, callback, poller, login,
                   history, seen, crashed, display>>

\* ----------------------------------------------------------------- Next
Next ==
    \/ RunLoad
    \/ RunCheck
    \/ RunAfterRefresh
    \/ \E p \in Refreshers : RefreshLock(p)
    \/ \E p \in Refreshers : RefreshPost(p)
    \/ \E p \in Refreshers : RefreshClear(p)
    \/ \E p \in Refreshers : RefreshWrite(p)
    \/ \E m \in Managers : ManagerCheck(m)
    \/ \E m \in Managers : ManagerSet(m)
    \/ \E m \in Managers : ManagerPersist(m)
    \/ \E m \in Managers : ManagerWriteFile(m)
    \/ \E m \in Managers : ManagerCalc(m)
    \/ \E m \in Managers : ManagerAfterRefresh(m)
    \/ \E h \in Handlers : CallbackPost(h)
    \/ \E h \in Handlers : CallbackLock(h)
    \/ \E h \in Handlers : CallbackWrite(h)
    \/ GetAccessTokenLock
    \/ GetAccessTokenRead
    \/ PollSleep
    \/ Tick

Spec == Init /\ [][Next]_vars

\* ============================================== the events and their display
\* Start.DateTime is a fixed-width string of digits ("2006-01-02T15:04:05"),
\* here two digits wide.  Go compares strings byte by byte; time.Parse gives
\* the instant.
StringLess(a, b) == a[1] < b[1] \/ (a[1] = b[1] /\ a[2] < b[2])
ParseDateTime(str) == 10 * str[1] + str[2]

\* The events the calendar can hold, the lists a fetch can return (in any
\* order, main.go line 196), and the instants at which something happens.
EventSubjects == {"standup", "review"}
EventStarts == {<<0, 5>>, <<1, 0>>, <<2, 5>>}
OutlookEvents == [Subject : EventSubjects, Start : EventStarts]
EventLists == UNION {[1..n -> OutlookEvents] : n \in 0..MaxEvents}
Instants == {0, 7, 20, 30}

\* sort.Slice(graphEvents.Value, less) with less comparing Start.DateTime as
\* strings (main.go lines 208-210): some permutation in which no element is
\* less than an earlier one; the sort is not stable.
IsPermutation(s, t) ==
    /\ Len(s) = Len(t)
    /\ \E f \in [1..Len(s) -> 1..Len(s)] :
          /\ \A i, j \in 1..Len(s) : f[i] = f[j] => i = j
          /\ \A i \in 1..Len(s) : s[i] = t[f[i]]
IsSortedByStart(s) ==
    \A i, j \in 1..Len(s) : i < j => ~StringLess(s[j].Start, s[i].Start)
SortSlice(list) == {s \in EventLists : IsPermutation(s, list) /\ IsSortedByStart(s)}

\* The loops of main.go lines 136-143 and 231-241: the first element, in the
\* list's order, whose parsed start is after time.Now().
IsAfter(event, t) == ParseDateTime(event.Start) > t
FirstAfter(list, t) ==
    CHOOSE i \in 1..Len(list) :
        IsAfter(list[i], t) /\ \A j \in 1..(i - 1) : ~IsAfter(list[j], t)
ReportOf(event) ==
    [kind |-> "event", Subject |-> event.Subject, Start |-> ParseDateTime(event.Start)]

\* nextEventHandler, main.go lines 134-147: "No events" is written only in
\* the else branch of len(graphEvents.Value) > 0; a list without an event
\* after now leaves the response empty.
NextEventResponse(list, t) ==
    IF Len(list) > 0
    THEN IF \E i \in 1..Len(list) : IsAfter(list[i], t)
         THEN ReportOf(list[FirstAfter(list, t)])
         ELSE NoReport
    ELSE NoEvents

\* persistEvent, main.go lines 228-242: nextEventString starts as "No events"
\* and is replaced by the first event after now.
NextEventString(list, t) ==
    IF Len(list) > 0 /\ \E i \in 1..Len(list) : IsAfter(list[i], t)
    THEN ReportOf(list[FirstAfter(list, t)])
    ELSE NoEvents

\* Everything of the credential side, which the display does not touch.
authVars ==
    <<store, lock, refreshTokenManagerRunning, config, graphCredentials, file, pc, data,
      err, exchanges, manager, wakeAt, callback, poller, login, history, seen, crashed>>

\* fetchEventsFromOutlook, main.go lines 189-203: the answer is decoded into
\* graphEvents, in the order the server sent it.
FetchDecode ==
    /\ ~fetching
    /\ \E list \in EventLists : graphEvents' = list
    /\ fetching' = TRUE
    /\ UNCHANGED <<authVars, now, nextEventFile, nextEventBody>>

\* main.go lines 208-216: the list is sorted and persistEvent writes the
\* status file.
FetchSortPersist ==
    /\ fetching
    /\ \E sorted \in SortSlice(graphEvents) :
          /\ graphEvents' = sorted
          /\ nextEventFile' = NextEventString(sorted, now)
    /\ fetching' = FALSE
    /\ UNCHANGED <<authVars, now, nextEventBody>>

\* GET /next-event: nextEventHandler reads graphEvents (without a lock) and
\* writes the response.
NextEventHandler ==
    /\ nextEventBody' = NextEventResponse(graphEvents, now)
    /\ UNCHANGED <<authVars, now, graphEvents, fetching, nextEventFile>>

\* Time passes.
EventsTick ==
    /\ \E t \in Instants : t > now /\ now' = t
    /\ UNCHANGED <<authVars, display>>

EventsInit == Init /\ ~credentialsConfig.Persist

EventsNext ==
    \/ FetchDecode
    \/ FetchSortPersist
    \/ NextEventHandler
    \/ EventsTick

EventsSpec == EventsInit /\ [][EventsNext]_vars

\* =============================================================== claims
\* A refresh exchange failed: no answer, an answer that is not 200, or a body
\* that is no JSON.
RefreshFailed(r) == r # NoResponse /\ RefreshBranch(r) # "write"

\* The goroutines inside the loop of refreshTokenManager (lines 136-158).
LoopStates == {"persist", "create", "calc", "sleep", "rfPost", "rfClear", "rfWrite", "rfRet"}
InLoop == {m \in Managers : pc[m] \in LoopStates}

\* C1: whenever refreshTokenHandler returns from a failed exchange (transport
\* failure, a status other than 200, a malformed body), the store then has
\* authenticated = false and an empty access token.
C1_FailedRefreshClearsStore ==
    [][\A p \in Refreshers :
          (pc[p] # "rfRet" /\ pc'[p] = "rfRet" /\ RefreshFailed(resp'[p]))
              => (~authenticated' /\ credentials'.AccessToken = "")]_vars

\* C2: a manager whose refresh exchange failed, for whatever reason, leaves
\* its loop: from the handler's return it goes nowhere but out (no further
\* persist, sleep or exchange).
C2_FailedRefreshStopsManager ==
    [][\A m \in Managers :
          (pc[m] = "rfRet" /\ RefreshFailed(resp[m]))
              => pc'[m] \in {"rfRet", "idle", "exit"}]_vars

\* C3: at most one refreshTokenManager goroutine is inside the loop at any
\* time, however the starts interleave.
C3_AtMostOneManagerLoop == Cardinality(InLoop) <= 1

\* C4: whenever a manager is inside its loop and GetAccessToken has just
\* returned a token with authenticated = true, the time is before the expiry
\* of the stored token.
C4_TokenFreshWhileManaged ==
    (InLoop # {} /\ pc[PollProc] = "got" /\ isAuthenticated /\ graphAccessToken # "")
        => now < expiresTimestamp

\* max(0, n)
ClampToZero(n) == IF n < 0 THEN 0 ELSE n

\* C5: the sleep a manager computes is max(0, ExpiresIn - 60) seconds of the
\* stored ExpiresIn.
C5_SleepIsClamped ==
    [][\A m \in Managers :
          (pc[m] # "sleep" /\ pc'[m] = "sleep")
              => timeUntilRefresh'[m] = ClampToZero(credentials.ExpiresIn - SafetyMargin)]_vars

\* C6: in every state where no write is in progress, authenticated = true
\* implies a non-empty stored access token.
C6_AuthenticatedHasToken ==
    (lock = NoOne /\ authenticated) => credentials.AccessToken # ""

\* The goroutines that hold the answer of exchange number k.
HoldersOf(k) == {p \in Exchangers : k > 0 /\ exchange[p] = k}

\* C7: a GetAccessToken call that returns authenticated = true returns the
\* access token written by the exchange that set the flag.
C7_ReadIsOfOneExchange ==
    (pc[PollProc] = "got" /\ isAuthenticated) => seenTokenBy = seenAuthBy

C7_Witness ==
    /\ pc[PollProc] = "got"
    /\ isAuthenticated
    /\ seenAuthBy > 1
    /\ seenTokenBy = seenAuthBy

\* C8: a GetAccessToken call that follows the store write of a successful
\* exchange, with no other write in between, returns that answer's access
\* token and authenticated = true.
C8_ReadAfterWrite ==
    pc[PollProc] = "got" =>
        \A p \in HoldersOf(seenAuthBy) :
            (seenTokenBy = seenAuthBy /\ Succeeded(resp[p]))
                => (isAuthenticated /\ graphAccessToken = resp[p].auth.AccessToken)

C8_Witness ==
    /\ pc[PollProc] = "got"
    /\ seenTokenBy = seenAuthBy
    /\ \E m \in Managers : m \in HoldersOf(seenAuthBy) /\ Succeeded(resp[m])
    /\ graphAccessToken = "at2"

\* A status outside 200..299.
Rejected(r) == r.status > 0 /\ (r.status < 200 \/ r.status > 299)

\* C9: a callback whose exchange the provider answered with a status outside
\* 2xx ends with the redirect to /error, without a store write and without a
\* manager start.
C9_RejectedCallbackLeavesStore ==
    \A h \in Handlers :
        (pc[h] = "done" /\ Rejected(resp[h]))
            => (redirect[h] = "/error" /\ ~wrote[h] /\ ~started[h])

\* C10: a callback whose exchange succeeded ends with the answer's
\* credential in the store, authenticated = true, the redirect to /success
\* and a manager start; and no callback redirects to /success without having
\* written the store.
C10_CallbackSuccess ==
    \A h \in Handlers :
        /\ (pc[h] = "done" /\ Succeeded(resp[h]))
               => (redirect[h] = "/success" /\ wrote[h] /\ started[h])
        /\ (pc[h] = "done" /\ Succeeded(resp[h]) /\ tokenBy = exchange[h] /\ authBy = exchange[h])
               => (authenticated /\ credentials = resp[h].auth
                     /\ expiresTimestamp >= resp[h].auth.ExpiresIn)
        /\ redirect[h] = "/success" => wrote[h]
        /\ pc[h] = "done" => redirect[h] \in {"/success", "/error"}

C10_Witness ==
    \E h \in Handlers :
        /\ pc[h] = "done"
        /\ Succeeded(resp[h])
        /\ redirect[h] = "/success"
        /\ credentials.AccessToken = "at1"
        /\ authenticated

\* C11: when Run finds a persisted refresh token and the provider accepts it,
\* Run has made exactly one exchange, the store holds the answer's credential
\* with authenticated = true, the manager was started, and Run did not call
\* openLoginPage.
C11_SilentRefreshAtStartup ==
    /\ (pc[RunProc] = "rfRet" /\ Succeeded(resp[RunProc]))
           => (nExchanges = 1 /\ authenticated /\ credentials = resp[RunProc].auth)
    /\ (pc[RunProc] = "done" /\ Succeeded(resp[RunProc]))
           => (exchange[RunProc] = 1 /\ started[RunProc]
                 /\ \A c \in openLoginPageCalls : c[2] # RunProc[1])

C11_Witness ==
    /\ pc[RunProc] = "done"
    /\ Succeeded(resp[RunProc])
    /\ started[RunProc]
    /\ \E m \in Managers : pc[m] = "start"
    /\ authenticated
    /\ credentials.AccessToken = "at1"

\* C12: when Run finds a persisted refresh token and its exchange fails
\* (transport failure, a status other than 200, a malformed body), the store
\* is left with authenticated = false, the login page is opened, and no
\* manager is started.
C12_FailedRefreshAtStartup ==
    (pc[RunProc] = "done" /\ RefreshFailed(resp[RunProc]))
        => (~started[RunProc] /\ openLoginPageCalls # {})

\* C13: GetAccessToken never fails: once Run has returned, main holds the
\* store that the callback and the manager write, and the process never ends
\* inside GetAccessToken.
C13_GetAccessTokenNeverFails ==
    /\ crashed # "GetAccessToken"
    /\ pc[RunProc] = "done" => graphCredentials = "store"

\* C14: a failure of os.Create, WriteString or Close in persistCredentials
\* is not fatal: the process goes on, the store is as it was, and the manager
\* goes on to compute its sleep.
C14_PersistFailureNotFatal ==
    [][\A m \in Managers :
          (pc[m] = "create" /\ pc'[m] # "create")
              => (Alive' /\ pc'[m] = "calc" /\ UNCHANGED store)]_vars

\* C15: loading the persisted credential never aborts startup: with an
\* absent or malformed file the credential is empty and Run goes on.
C15_LoadNeverAborts ==
    [][(pc[RunProc] = "load" /\ pc'[RunProc] # "load")
          => /\ Alive'
             /\ pc'[RunProc] = "check"
             /\ (credentialsConfig.Persist /\ LoadFails) => credentials' = ZeroCredentials]_vars

\* C16: a manager holds the lock neither while it sleeps nor while a request
\* of its to the provider is in flight.
C16_NoWaitUnderLock ==
    \A m \in Managers : pc[m] \in {"sleep", "rfPost"} => lock # m

\* C18: openLoginPage is never called on a manager's path.
C18_ManagerOpensNoLogin ==
    \A c \in openLoginPageCalls : c[2] # "mgr"

\* C17: once an exchange has succeeded, every refresh request carries the
\* refresh token of the most recent successful exchange.
C17_RefreshSendsLatestToken ==
    \A q \in Refreshers : (pc[q] = "rfPost" /\ granted # "") => data[q] = granted

Upcoming(list, t) == {i \in 1..Len(list) : ParseDateTime(list[i].Start) > t}
SoonestReports(list, t) ==
    IF Upcoming(list, t) = {}
    THEN {NoEvents}
    ELSE {ReportOf(list[i]) : i \in {k \in Upcoming(list, t) :
              \A j \in Upcoming(list, t) :
                  ParseDateTime(list[k].Start) <= ParseDateTime(list[j].Start)}}

\* C20: what /next-event answers (while no fetch is rewriting the list) and
\* what is written to the status file is the event with the earliest start
\* after now, or "No events" when no event of the list starts after now.
C20_SoonestUpcomingReported ==
    [][/\ (nextEventBody' # nextEventBody /\ ~fetching)
           => nextEventBody' \in SoonestReports(graphEvents, now)
       /\ nextEventFile' # nextEventFile
           => nextEventFile' \in SoonestReports(graphEvents', now)]_vars

\* Startup finds no refresh token: persistence is off, the file is absent or
\* unreadable, or the persisted refresh token is empty.
NoStoredToken ==
    \/ ~credentialsConfig.Persist
    \/ LoadFails
    \/ TomlDecode(file).RefreshToken = ""

\* C21: at a startup that finds no refresh token, Run makes no exchange,
\* starts no manager, leaves the store unauthenticated and opens the login
\* page.
C21_StartupWithoutToken ==
    [][/\ (pc[RunProc] = "load" /\ pc'[RunProc] # "load" /\ NoStoredToken)
             => (Alive' /\ pc'[RunProc] = "check" /\ credentials'.RefreshToken = "")
       /\ (pc[RunProc] = "check" /\ pc'[RunProc] # "check" /\ credentials.RefreshToken = "")
             => /\ pc'[RunProc] = "done"
                /\ nExchanges' = 0
                /\ ~started'[RunProc]
                /\ ~authenticated'
                /\ <<"Run", RunProc[1]>> \in openLoginPageCalls'
                /\ \A m \in Managers : pc'[m] = "idle"]_vars

\* C22: the file changes only in a manager's persist step, and only when
\* persistence is on and the path is not empty; the persist step leaves the
\* store as it is.
C22_PersistFrame ==
    [][/\ file' # file
             => /\ credentialsConfig.Persist
                /\ credentialsConfig.StoragePath # ""
                /\ \E m \in Managers : pc[m] = "create" /\ pc'[m] # "create"
       /\ \A m \in Managers :
             (\/ pc[m] = "persist" /\ pc'[m] \in {"create", "calc"}
              \/ pc[m] = "create" /\ pc'[m] = "calc")
                 => UNCHANGED store]_vars

C22_Witness ==
    /\ credentialsConfig.Persist
    /\ credentialsConfig.StoragePath = ""
    /\ \E m \in Managers : pc[m] = "sleep"
    /\ file.kind = "toml"
    /\ credentials.AccessToken = "at1"
    /\ TomlDecode(file).AccessToken = "at0"

\* The credentials of one exchange (or of none): what the provider grants,
\* what a start file holds, and the zero value.
WholeCredentials ==
    {ZeroCredentials} \cup TokenBodies
        \cup {TomlDecode(f) : f \in {g \in StartFiles : g.kind = "toml"}}

\* C23: what persistCredentials encodes, and so what the file holds, is the
\* credential of one single exchange, never a mix of two.
C23_FileIsOfOneExchange ==
    /\ \A m \in Managers : pc[m] = "create" => TomlDecode(buf[m]) \in WholeCredentials
    /\ file.kind = "toml" => TomlDecode(file) \in WholeCredentials

C23_Witness ==
    /\ \E m \in Managers : pc[m] = "create" /\ TomlDecode(buf[m]).AccessToken = "at2"
    /\ \E h \in Handlers : pc[h] = "done" /\ wrote[h]
    /\ file.kind = "toml"
    /\ TomlDecode(file).AccessToken = "at1"

\* C24: once a callback has stored a granted credential and the start it
\* spawned has run, a manager is inside its loop.
C24_StartNeverLost ==
    \A h \in Handlers :
        (/\ pc[h] = "done"
         /\ Succeeded(resp[h])
         /\ started[h]
         /\ authBy = exchange[h]
         /\ \A m \in Managers : pc[m] \notin {"start", "set"})
            => InLoop # {}

\* ------------------------------------------------------------ scheduling
\* A goroutine that can run is run, and time passes: a step that stays
\* possible is eventually taken.  A callback request arrives or not, as the
\* browser decides.
Fairness ==
    /\ WF_vars(RunLoad)
    /\ WF_vars(RunCheck)
    /\ WF_vars(RunAfterRefresh)
    /\ \A p \in Refreshers :
          /\ WF_vars(RefreshLock(p))
          /\ WF_vars(RefreshPost(p))
          /\ WF_vars(RefreshClear(p))
          /\ WF_vars(RefreshWrite(p))
    /\ \A m \in Managers :
          /\ WF_vars(ManagerCheck(m))
          /\ WF_vars(ManagerSet(m))
          /\ WF_vars(ManagerPersist(m))
          /\ WF_vars(ManagerWriteFile(m))
          /\ WF_vars(ManagerCalc(m))
          /\ WF_vars(ManagerAfterRefresh(m))
    /\ \A h \in Handlers :
          /\ WF_vars(CallbackLock(h))
          /\ WF_vars(CallbackWrite(h))
    /\ WF_vars(GetAccessTokenLock)
    /\ WF_vars(GetAccessTokenRead)
    /\ WF_vars(PollSleep)
    /\ WF_vars(Tick)

LiveSpec == Init /\ [][Next]_vars /\ Fairness

\* Where each goroutine is while it holds the mutex.
HoldingStates(p) ==
    IF p \in Refreshers THEN {"rfPost", "rfClear", "rfWrite"}
    ELSE IF p \in Handlers THEN {"cbWrite"}
    ELSE {"read"}

\* The provider call of a refresh that never returns: the provider answers
\* MaxExchanges requests and no more.
AwaitingProvider == \E p \in Refreshers : pc[p] = "rfPost" /\ nExchanges = MaxExchanges

\* GetAccessToken is called and waits for the mutex.
GetAccessTokenWaits ==
    /\ Alive
    /\ pc[PollProc] = "sleep"
    /\ now >= wakeAt[PollProc]
    /\ graphCredentials # "nil"

\* C25: the mutex is held exactly by a goroutine inside a locked section that
\* ends by unlocking, nobody locks twice, and so a GetAccessToken call that
\* waits for the mutex gets it, unless the process ends or a provider call
\* never returns.
C25_LockNeverDeadlocks ==
    /\ [](\A p \in Procs : lock = p <=> pc[p] \in HoldingStates(p))
    /\ GetAccessTokenWaits ~> (pc[PollProc] = "read" \/ ~Alive \/ AwaitingProvider)

C25_Witness ==
    /\ pc[PollProc] = "read"
    /\ \E h \in Handlers : pc[h] = "done" /\ wrote[h]
    /\ \E m \in Managers : pc[m] = "sleep"
    /\ authenticated

\* No callback has stored the answer of a rejected exchange.
NoRejectedStored == \A h \in Handlers : wrote[h] => Succeeded(resp[h])

\* C26: every credential a manager encodes for the file has a refresh token
\* (as long as no callback stored a rejected exchange).
C26_NeverPersistsCleared ==
    NoRejectedStored
        => \A m \in Managers : pc[m] = "create" => TomlDecode(buf[m]).RefreshToken # ""

\* C27: every refresh request carries a refresh token (as long as no callback
\* stored a rejected exchange).
C27_RefreshHasToken ==
    NoRejectedStored
        => \A p \in Refreshers : pc[p] = "rfPost" => data[p] # ""

\* C28: a callback whose exchange fails in transport or whose answer does not
\* decode goes no further than the redirect to /error: the store, the
\* running flag, the mutex and every manager stay as they were.
C28_FailedCallbackFrame ==
    [][\A h \in Handlers :
          /\ (pc[h] = "idle" /\ pc'[h] = "cbHandle")
                => (resp'[h].status # 0 /\ ~DecodeFails(resp'[h]))
          /\ (pc[h] = "idle" /\ pc'[h] = "done")
                => /\ redirect'[h] = "/error"
                   /\ ~wrote'[h]
                   /\ ~started'[h]
                   /\ UNCHANGED <<store, lock, refreshTokenManagerRunning>>
                   /\ \A m \in Managers : pc'[m] = pc[m]]_vars

C28_Witness ==
    /\ \E h \in Handlers : pc[h] = "done" /\ redirect[h] = "/error"
    /\ authenticated
    /\ credentials.AccessToken = "at1"
    /\ \E m \in Managers : pc[m] = "sleep"

====
